---- MODULE Spec2Model ----
(***************************************************************************)
(* Review workflow of the trial grader: the finalized-review store         *)
(* (reviewedTrials, persisted under localStorage 'reviewedTrials'), the    *)
(* draft cache (localStorage 'reviewDrafts'), the edit fields and the      *)
(* navigation state of TrialReviewInterface, with the handlers that        *)
(* change them.                                                            *)
(*                                                                         *)
(* A JavaScript string is a sequence of one-character strings, so that     *)
(* normalizeText and getDraftKey are computed on the characters.  An       *)
(* optional value (null / undefined / a missing localStorage item) is      *)
(* None, a present one Some(v).                                            *)
(***************************************************************************)
EXTENDS Integers, Sequences, FiniteSets, TLC

VARIABLES
    mounted,            \* the mount effect (useEffect(..., [])) has run
    fetching,           \* loadCSVData is awaiting fetch/parse
    loading,            \* useState(true)
    error,              \* useState<string | null>(null)
    trials,             \* useState<TrialData[]>([])
    questions,          \* useState<string[]>([])
    questionedTrials,   \* useState<Record<string, TrialData[]>>({})
    selectedQuestion,   \* useState<string>('')
    currentTrialIndex,  \* useState(0); 0-based as in the code
    humanGrade,         \* useState<string>('')
    reviewComments,     \* useState('')
    reviewedTrials,     \* useState<ReviewedTrialData[]>([])
    storedReviews,      \* localStorage item 'reviewedTrials' (JSON-decoded)
    storedDrafts,       \* localStorage item 'reviewDrafts' (JSON-decoded)
    clock,              \* the wall clock read by new Date()
    ops,                \* number of counted operations made so far
    lastOp,             \* observation: the handler that ran last
    log,                \* observation: a submit, undo, submit run on one identity
    csvText,            \* the text handed to parseCSV
    written,            \* observation: the rows of cells csvText was written from
    parsed,             \* what parseCSV returned or threw, None before the call
    tabs,               \* the review lists of two tabs open on the same storage
    lastWriter          \* observation: the tab whose storage write returned last

vars == <<mounted, fetching, loading, error, trials, questions, questionedTrials,
          selectedQuestion, currentTrialIndex, humanGrade, reviewComments,
          reviewedTrials, storedReviews, storedDrafts, clock, ops,
          lastOp, log, csvText, written, parsed, tabs, lastWriter>>

parserVars == <<csvText, written, parsed>>

tabVars == <<tabs, lastWriter>>

componentVars ==
    <<mounted, fetching, loading, error, trials, questions, questionedTrials,
      selectedQuestion, currentTrialIndex, humanGrade, reviewComments,
      reviewedTrials, storedReviews, storedDrafts, clock, ops, lastOp, log>>

\* Bound of the exploration: how many field changes, submits, undos and page
\* reloads a behaviour makes (navigation, mounting and loading are not counted).
MaxOps == 3

\* Bound of the CSV texts handed to parseCSV: how many data rows a text has.
MaxRows == 2

None == [some |-> FALSE]
Some(v) == [some |-> TRUE, val |-> v]

Min(a, b) == IF a < b THEN a ELSE b
Max(a, b) == IF a > b THEN a ELSE b

----------------------------------------------------------------------------
(* Text helpers *)

\* The characters /\s/ matches, among those the model's texts use.
IsSpace(c) == c \in {" ", "\t", "\n", "\r"}

RECURSIVE DropLeadingSpaces(_)
DropLeadingSpaces(s) ==
    IF s # <<>> /\ IsSpace(Head(s)) THEN DropLeadingSpaces(Tail(s)) ELSE s

\* text.replace(/\s+/g, ' ')
RECURSIVE CollapseSpaces(_)
CollapseSpaces(s) ==
    IF s = <<>> THEN <<>>
    ELSE IF IsSpace(Head(s))
         THEN <<" ">> \o CollapseSpaces(DropLeadingSpaces(Tail(s)))
         ELSE <<Head(s)>> \o CollapseSpaces(Tail(s))

RECURSIVE DropTrailingSpaces(_)
DropTrailingSpaces(s) ==
    IF s # <<>> /\ IsSpace(s[Len(s)])
    THEN DropTrailingSpaces(SubSeq(s, 1, Len(s) - 1))
    ELSE s

\* String.prototype.trim
Trim(s) == DropTrailingSpaces(DropLeadingSpaces(s))

\* normalizeText: (text ?? '').replace(/\s+/g, ' ').trim()
NormalizeText(text) == Trim(CollapseSpaces(text))

\* getDraftKey: `${nctId}::${normalizeText(question)}`
GetDraftKey(nctId, question) == nctId \o <<":", ":">> \o NormalizeText(question)

----------------------------------------------------------------------------
(* The parsed CSV: what fetch('/grades.csv') and parseCSV hand to loadCSVData *)

Trial(q, nct, mg, jg) ==
    [question_text |-> q, nct_id |-> nct, model_grade |-> mg,
     judge_correct_grade |-> jg, human_grade |-> <<>>]

\* Two rows of one trial whose case texts differ in a whitespace run, and a
\* second trial of the same case.
DataA ==
    << Trial(<<"P", " ", " ", "x">>, <<"N", "1">>, <<"A">>, <<"B">>),
       Trial(<<"P", " ", "x">>,      <<"N", "1">>, <<"B">>, <<>>),
       Trial(<<"P", " ", "x">>,      <<"N", "2">>, <<"A">>, <<"A">>) >>

\* A header-only file.
DataEmpty == <<>>

\* The file written anew: the first trial's row only, its case text with the
\* single blank and the other model grade.
DataB == << Trial(<<"P", " ", "x">>, <<"N", "1">>, <<"B">>, <<>>) >>

Datasets == {DataA, DataEmpty, DataB}

\* The grades the Select offers (a subset of A, B, C, D, F) and the texts typed
\* into the comments Textarea.
Grades == {<<"A">>, <<"B">>}
CommentTexts == {<<"c">>}

----------------------------------------------------------------------------
(* csv-parser.ts: parseCSV.  A CSV text is a sequence of tokens: a comma, a  *)
(* double quote, a line feed and a white-space character are each one token, *)
(* and a run of other characters (a column name, a word of a value) is one   *)
(* token, since the parser only ever copies or compares such a run whole.    *)

\* The fields of TrialData, in the order of the interface.
FieldNames ==
    << "question_text", "nct_id", "retrieval_score", "matching_terms",
       "trial_title", "brief_summary", "interventions", "trial_phase",
       "trial_age_range", "diseases_targeted", "inclusion_criteria",
       "exclusion_criteria", "prior_therapies", "gender", "model_grade",
       "model_reasoning", "judge_assessment", "judge_correct_grade",
       "judge_explanation", "patient_diseases_targeted", "patient_biomarkers",
       "patient_inclusion_criteria", "patient_exclusion_criteria",
       "patient_prior_therapies", "patient_disease_stage",
       "patient_line_of_therapy", "patient_age", "patient_age_unit",
       "patient_sex", "patient_trial_phase_preference", "human_grade" >>

\* The fields get() reads with a fallback index, in the order of the indexes
\* 0..11.
LegacyNames ==
    << "question_text", "nct_id", "trial_title", "trial_phase", "trial_age_range",
       "diseases_targeted", "inclusion_criteria", "exclusion_criteria",
       "prior_therapies", "gender", "model_grade", "human_grade" >>

\* The fallback index get() is called with for a field; -1 (fallbackIdx ?? -1)
\* when it is called without one.
FallbackIdx(name) ==
    IF \E i \in 1..Len(LegacyNames) : LegacyNames[i] = name
    THEN (CHOOSE i \in 1..Len(LegacyNames) : LegacyNames[i] = name) - 1
    ELSE -1

\* String.prototype.split on a one-character separator: the pieces between
\* the separators (at the positions seps), one more than there are separators.
Split(s, sep) ==
    LET seps == SelectSeq([i \in 1..Len(s) |-> i], LAMBDA i : s[i] = sep)
        n == Len(seps)
    IN [k \in 1..(n + 1) |->
          SubSeq(s, IF k = 1 THEN 1 ELSE seps[k - 1] + 1,
                    IF k = n + 1 THEN Len(s) ELSE seps[k] - 1)]

\* s.replace(/"/g, '')
RemoveQuotes(s) == SelectSeq(s, LAMBDA c : c # "\"")

\* toLowerCase of a run of characters, for the runs the model's headers use.
LowerToken(c) ==
    IF c = "NCT_ID" THEN "nct_id"
    ELSE IF c = "Trial_Title" THEN "trial_title"
    ELSE IF c = "Reasoning" THEN "reasoning"
    ELSE c

ToLowerCase(s) == [i \in 1..Len(s) |-> LowerToken(s[i])]

\* Variant: the name is only trimmed.
NormKeepingCase(s) == Trim(s)

\* norm = s => s.toLowerCase().trim()
Norm(s) == Trim(ToLowerCase(s))

\* csvText.split('\n').filter(line => line.trim())
Lines(text) == SelectSeq(Split(text, "\n"), LAMBDA line : Trim(line) # <<>>)

\* lines[0].split(',').map(header => header.replace(/"/g, ''))
Headers(line) ==
    [i \in 1..Len(Split(line, ",")) |-> RemoveQuotes(Split(line, ",")[i])]

\* Variant: a comma ends the field inside quotes too.
ScanLineIgnoringQuotes(line) == Headers(line)

\* The scan of one data line, character by character: a quote toggles inQuotes
\* (inQuotes at a position is an odd number of quotes before it), a comma
\* outside quotes ends the field (ends: the positions of these commas), any
\* other character is appended; the last field is pushed at the end of the
\* line.  The quotes are never appended, which RemoveQuotes states.
ScanLine(line) ==
    LET inQuotes(j) == Cardinality({k \in 1..(j - 1) : line[k] = "\""}) % 2 = 1
        ends == SelectSeq([j \in 1..Len(line) |-> j],
                          LAMBDA j : line[j] = "," /\ ~inQuotes(j))
        n == Len(ends)
    IN [k \in 1..(n + 1) |->
          RemoveQuotes(SubSeq(line, IF k = 1 THEN 1 ELSE ends[k - 1] + 1,
                                    IF k = n + 1 THEN Len(line) ELSE ends[k] - 1))]

\* norm(h) of every header: what each findIndex call compares the name with.
NormHeaders(headers) == [i \in 1..Len(headers) |-> Norm(headers[i])]

\* headers.findIndex(h => norm(h) === norm(name)), normed being the headers
\* under norm: the 0-based index of the first match, -1 when there is none
FindIndex(normed, name) ==
    LET hits == SelectSeq([i \in 1..Len(normed) |-> i],
                          LAMBDA i : normed[i] = Norm(name))
    IN IF hits = <<>> THEN -1 ELSE hits[1] - 1

\* indexOf(name, fallbackIdx)
IndexOf(normed, name, fallbackIdx) ==
    LET idx == FindIndex(normed, name)
    IN IF idx >= 0 THEN idx ELSE fallbackIdx

\* Variant: a column the row does not have makes the read fail over to the
\* last field of the row.
CellOrLast(fields, idx) ==
    IF idx < Len(fields) THEN fields[idx + 1] ELSE fields[Len(fields)]

\* fields[idx] || ''
Cell(fields, idx) == IF idx < Len(fields) THEN fields[idx + 1] ELSE <<>>

\* get(name, fallbackIdx), name being one run of characters
Get(normed, fields, name) ==
    LET idx == IndexOf(normed, <<name>>, FallbackIdx(name))
    IN IF idx >= 0 THEN Cell(fields, idx) ELSE <<>>

\* Variant: only the canonical column is read.
FirstTruthyOfFirst(normed, fields, names) == Get(normed, fields, names[1])

\* get(n1) || get(n2) || ... : the first value that is not '', and the last
\* one ('') when all are.
RECURSIVE FirstTruthy(_, _, _)
FirstTruthy(normed, fields, names) ==
    IF Len(names) = 1 \/ Get(normed, fields, names[1]) # <<>>
    THEN Get(normed, fields, names[1])
    ELSE FirstTruthy(normed, fields, Tail(names))

ReasoningNames ==
    << "model_reasoning", "reasoning", "model_explanation", "llm_reasoning",
       "llm_explanation" >>

\* The object built for one data line.  model_reasoning is get(...) || ... ||
\* undefined: None when no column gives it a value.
ParsedTrial(normed, fields) ==
    [f \in {FieldNames[i] : i \in 1..Len(FieldNames)} |->
        IF f = "model_reasoning"
        THEN IF FirstTruthy(normed, fields, ReasoningNames) # <<>>
             THEN Some(FirstTruthy(normed, fields, ReasoningNames))
             ELSE None
        ELSE IF f = "judge_assessment"
        THEN FirstTruthy(normed, fields, <<"judge_assessment", "judge_accuracy">>)
        ELSE IF f = "judge_explanation"
        THEN FirstTruthy(normed, fields, <<"judge_explanation", "judge_comment">>)
        ELSE Get(normed, fields, f)]

\* parseCSV: the records of the data lines, or the TypeError of
\* lines[0].split when the text has no line that is not blank.
ParseCSV(text) ==
    LET lines == Lines(text)
    IN IF lines = <<>> THEN [threw |-> TRUE, trials |-> <<>>]
       ELSE [threw |-> FALSE,
             trials |-> [i \in 1..(Len(lines) - 1) |->
                           ParsedTrial(NormHeaders(Headers(lines[1])),
                                       ScanLine(Trim(lines[i + 1])))]]

----------------------------------------------------------------------------
(* csv-parser.ts: grouping *)

RECURSIVE GroupFrom(_, _, _)
GroupFrom(ts, i, grouped) ==
    IF i > Len(ts) THEN grouped
    ELSE LET q == ts[i].question_text
             old == IF q \in DOMAIN grouped THEN grouped[q] ELSE <<>>
         IN GroupFrom(ts, i + 1,
                [k \in DOMAIN grouped \cup {q} |->
                    IF k = q THEN Append(old, ts[i]) ELSE grouped[k]])

\* Variant: a record is put in front of its group.
GroupTrialsNewestFirst(ts) ==
    GroupFrom([i \in 1..Len(ts) |-> ts[Len(ts) + 1 - i]], 1, <<>>)

\* groupTrialsByQuestion: keyed by the raw question_text
GroupTrialsByQuestion(ts) == GroupFrom(ts, 1, <<>>)

RECURSIVE UniqueFrom(_, _, _)
UniqueFrom(ts, i, acc) ==
    IF i > Len(ts) THEN acc
    ELSE UniqueFrom(ts, i + 1,
            IF \E j \in 1..Len(acc) : acc[j] = ts[i].question_text
            THEN acc ELSE Append(acc, ts[i].question_text))

\* getUniqueQuestions: [...new Set(trials.map(t => t.question_text))]
GetUniqueQuestions(ts) == UniqueFrom(ts, 1, <<>>)

----------------------------------------------------------------------------
(* The draft cache: loadDraft, saveDraft, deleteDraft.  ok says whether every *)
(* localStorage call of the function returned; one that throws (getItem or   *)
(* setItem) sends the function to its catch, which does nothing.             *)

\* Variant: a read that throws is answered from the map all the same.
LoadDraftDespiteFault(drafts, nctId, question, ok) ==
    IF ~drafts.some THEN None
    ELSE IF GetDraftKey(nctId, question) \in DOMAIN drafts.val
         THEN Some(drafts.val[GetDraftKey(nctId, question)])
         ELSE None

\* loadDraft: the entry under the key, or null
LoadDraft(drafts, nctId, question, ok) ==
    IF ~ok \/ ~drafts.some THEN None
    ELSE IF GetDraftKey(nctId, question) \in DOMAIN drafts.val
         THEN Some(drafts.val[GetDraftKey(nctId, question)])
         ELSE None

\* Variant: the entry is replaced by the partial, nothing is carried over.
MergeDraftReplacing(old, data) == data

\* { ...old, ...data }
MergeDraft(old, data) ==
    [f \in DOMAIN old \cup DOMAIN data |-> IF f \in DOMAIN data THEN data[f] ELSE old[f]]

\* saveDraft: the new value of the 'reviewDrafts' item
SaveDraft(drafts, nctId, question, data, ok) ==
    IF ~ok THEN drafts
    ELSE LET map == IF drafts.some THEN drafts.val ELSE <<>>
             key == GetDraftKey(nctId, question)
             old == IF key \in DOMAIN map THEN map[key] ELSE <<>>
             new == [k \in DOMAIN map \cup {key} |->
                        IF k = key THEN MergeDraft(old, data) ELSE map[k]]
         IN Some(new)

\* Variant: the map is never written back.
DeleteDraftKeeping(drafts, nctId, question, ok) == drafts

\* deleteDraft: the new value of the 'reviewDrafts' item
DeleteDraft(drafts, nctId, question, ok) ==
    IF ~ok \/ ~drafts.some THEN drafts
    ELSE LET map == drafts.val
             key == GetDraftKey(nctId, question)
         IN IF key \in DOMAIN map
            THEN Some([k \in DOMAIN map \ {key} |-> map[k]])
            ELSE drafts

----------------------------------------------------------------------------
(* The review store *)

\* JSON.stringify turns the Date of reviewed_at into its ISO string; a record
\* read back from storage carries the string.
ToJSON(r) == [r EXCEPT !.reviewed_at = <<"ISO", r.reviewed_at[2]>>]

ToJSONList(rs) == [i \in 1..Len(rs) |-> ToJSON(rs[i])]

\* Variant: the human grade is compared with the judge's grade.
ReviewStatusByJudge(grade, trial) ==
    IF grade = trial.judge_correct_grade THEN "approved" ELSE "needs_review"

\* humanGrade === currentTrial.model_grade ? 'approved' : 'needs_review'
ReviewStatus(grade, trial) ==
    IF grade = trial.model_grade THEN "approved" ELSE "needs_review"

\* The object handleReview builds: { ...currentTrial, human_grade, review_status,
\* comments, reviewed_at: new Date() }
ReviewedTrial(trial, grade, comments, now) ==
    [question_text |-> trial.question_text,
     nct_id |-> trial.nct_id,
     model_grade |-> trial.model_grade,
     judge_correct_grade |-> trial.judge_correct_grade,
     human_grade |-> grade,
     review_status |-> ReviewStatus(grade, trial),
     comments |-> comments,
     reviewed_at |-> <<"Date", now>>]

\* Variant: the case texts are compared as written, without normalizeText.
SubmitFilterRaw(prev, rt) ==
    SelectSeq(prev, LAMBDA x :
        ~(x.nct_id = rt.nct_id /\ x.question_text = rt.question_text))

\* handleReview: prev.filter(rt => !(rt.nct_id === reviewedTrial.nct_id &&
\*   normalizeText(rt.question_text) === normalizeText(reviewedTrial.question_text)))
SubmitFilter(prev, rt) ==
    SelectSeq(prev, LAMBDA x :
        ~(x.nct_id = rt.nct_id
          /\ NormalizeText(x.question_text) = NormalizeText(rt.question_text)))

\* Variant: an identity the store already holds keeps its old entry.
UpsertKeepingOld(prev, rt) ==
    IF Len(SubmitFilter(prev, rt)) < Len(prev) THEN prev ELSE Append(prev, rt)

\* Variant: the new entry is put first.
UpsertInFront(prev, rt) == <<rt>> \o SubmitFilter(prev, rt)

\* handleReview: next = [...filtered, reviewedTrial]
Upsert(prev, rt) == Append(SubmitFilter(prev, rt), rt)

\* Variant: the case texts are compared as written, without normalizeText.
UndoFilterRaw(prev, trial) ==
    SelectSeq(prev, LAMBDA x :
        ~(x.nct_id = trial.nct_id /\ x.question_text = trial.question_text))

\* Variant: every entry of the case is removed, whatever its trial.
UndoFilterByCase(prev, trial) ==
    SelectSeq(prev, LAMBDA x :
        NormalizeText(x.question_text) # NormalizeText(trial.question_text))

\* undoReview: prev.filter(rt => !(rt.nct_id === currentTrial.nct_id && ...))
UndoFilter(prev, trial) ==
    SelectSeq(prev, LAMBDA x :
        ~(x.nct_id = trial.nct_id
          /\ NormalizeText(x.question_text) = NormalizeText(trial.question_text)))

\* Variant: undo also deletes the trial's draft.
UndoDraftsDeleting(drafts, trial) ==
    DeleteDraft(drafts, trial.nct_id, trial.question_text, TRUE)

\* undoReview makes no call on the draft cache.
UndoDrafts(drafts, trial) == drafts

\* Variant: the item is written only while it does not exist yet.
WriteReviewsOnce(stored, next, writeOk) ==
    IF writeOk /\ ~stored.some THEN Some(ToJSONList(next)) ELSE stored

\* Variant: the write keeps the stored entries of the identities the new list
\* does not hold.
WriteReviewsMerging(stored, next, writeOk) ==
    IF ~writeOk THEN stored
    ELSE LET old == IF stored.some THEN stored.val ELSE <<>>
             kept == SelectSeq(old, LAMBDA x :
                        \A i \in 1..Len(next) :
                           ~(x.nct_id = next[i].nct_id
                             /\ NormalizeText(x.question_text)
                                   = NormalizeText(next[i].question_text)))
         IN Some(kept \o ToJSONList(next))

\* try { localStorage.setItem('reviewedTrials', JSON.stringify(next)) } catch {}
WriteReviews(stored, next, writeOk) ==
    IF writeOk THEN Some(ToJSONList(next)) ELSE stored

\* Variant: the list takes the new value only when the write returned.
UpdaterReturnIfWritten(prev, next, writeOk) == IF writeOk THEN next ELSE prev

\* The updater handed to setReviewedTrials ends in `return next`, after the
\* try/catch around the write: the list takes the new value whatever the write did.
UpdaterReturn(prev, next, writeOk) == next

\* The mount effect's restore: the stored array replaces the list when the
\* item exists and reads back as an array (the program only ever stores arrays).
RestoreReviews(current, stored, readOk) ==
    IF readOk /\ stored.some THEN stored.val ELSE current

----------------------------------------------------------------------------
(* exportToJSON: the statistics of the store.  The function has no caller in *)
(* the component; the document it builds is a function of the review list.   *)

RECURSIVE GCD(_, _)
GCD(a, b) == IF b = 0 THEN a ELSE GCD(b, a % b)

\* Variant: a zero denominator yields the number 0.
DivideGuarded(a, b) ==
    IF b = 0 THEN [kind |-> "finite", num |-> 0, den |-> 1]
    ELSE [kind |-> "finite", num |-> a \div GCD(a, b), den |-> b \div GCD(a, b)]

\* a / b on the Numbers a, b >= 0: NaN for 0/0, Infinity for a/0, and otherwise
\* the quotient, written as the fraction in lowest terms whose nearest double
\* the division returns.
Divide(a, b) ==
    IF b = 0
    THEN IF a = 0 THEN [kind |-> "NaN", num |-> 0, den |-> 0]
         ELSE [kind |-> "Infinity", num |-> 0, den |-> 0]
    ELSE [kind |-> "finite", num |-> a \div GCD(a, b), den |-> b \div GCD(a, b)]

\* Variant: the human grade is compared with the judge's grade.
AgreementCountByJudge(rs) ==
    Len(SelectSeq(rs, LAMBDA t : t.human_grade = t.judge_correct_grade))

\* reviewedTrials.filter(t => t.human_grade === t.model_grade).length
AgreementCount(rs) ==
    Len(SelectSeq(rs, LAMBDA t : t.human_grade = t.model_grade))

\* jsonData of exportToJSON (export_date left out)
ExportToJSON(rs) ==
    [reviewed_trials |-> rs,
     total_reviews |-> Len(rs),
     agreement_rate |-> Divide(AgreementCount(rs), Len(rs))]

----------------------------------------------------------------------------
(* exportToCSVFull: the rows of the full export.  The function has no caller *)
(* in the component; its rows are a function of the review list and of the   *)
(* parsed records.                                                           *)

\* Variant: the record is looked up by its identity, the case texts compared
\* under normalizeText.
FindBaseByIdentity(ts, r) ==
    LET hits == SelectSeq(ts, LAMBDA t :
                   t.nct_id = r.nct_id
                   /\ NormalizeText(t.question_text) = NormalizeText(r.question_text))
    IN IF hits = <<>> THEN None ELSE Some(hits[1])

\* trials.find(t => t.nct_id === r.nct_id && t.question_text === r.question_text)
FindBase(ts, r) ==
    LET hits == SelectSeq(ts, LAMBDA t :
                   t.nct_id = r.nct_id /\ t.question_text = r.question_text)
    IN IF hits = <<>> THEN None ELSE Some(hits[1])

\* get(k) = base?.[k] ?? r?.[k] ?? '': the parsed record's field when a base
\* was found, else the copy the reviewed record carries.
ExportGet(base, r, k) == IF base.some THEN base.val[k] ELSE r[k]

\* One row of the full export, the columns named as the headers name them.
ExportRow(ts, r) ==
    LET base == FindBase(ts, r)
    IN [question_text |-> ExportGet(base, r, "question_text"),
        nct_id |-> ExportGet(base, r, "nct_id"),
        model_grade |-> ExportGet(base, r, "model_grade"),
        judge_correct_grade |-> ExportGet(base, r, "judge_correct_grade"),
        human_grade |-> r.human_grade,
        comments |-> r.comments]

\* The rows exportToCSVFull writes, one for each entry of the review list
\* (on an empty list it returns at its guard and writes nothing).
ExportToCSVFull(rs, ts) == [i \in 1..Len(rs) |-> ExportRow(ts, rs[i])]

----------------------------------------------------------------------------
(* Derived selection *)

\* questionedTrials[selectedQuestion] || []
TrialsOf(qt, q) == IF q \in DOMAIN qt THEN qt[q] ELSE <<>>

\* currentTrials[currentTrialIndex]
TrialAt(qt, q, idx) ==
    IF idx >= 0 /\ idx < Len(TrialsOf(qt, q)) THEN Some(TrialsOf(qt, q)[idx + 1]) ELSE None

CurrentTrials == TrialsOf(questionedTrials, selectedQuestion)
CurrentTrial == TrialAt(questionedTrials, selectedQuestion, currentTrialIndex)

\* The render guards: the review panel and the case menu exist only then.
Rendered == ~loading /\ error = "null" /\ CurrentTrial.some

\* The effect on [selectedQuestion, currentTrialIndex]: the edit fields
\* <<humanGrade, reviewComments>> it sets for the trial now current.
EffectFields(ct, drafts, readOk, grade, comments) ==
    IF ~ct.some THEN <<grade, comments>>
    ELSE LET draft == LoadDraft(drafts, ct.val.nct_id, ct.val.question_text, readOk)
             hasGrade == draft.some /\ "human_grade" \in DOMAIN draft.val
                         /\ draft.val.human_grade # <<>>
             hasComments == draft.some /\ "comments" \in DOMAIN draft.val
         IN << IF hasGrade THEN draft.val.human_grade
               ELSE IF ct.val.judge_correct_grade # <<>> THEN ct.val.judge_correct_grade
               ELSE <<>>,
               IF hasComments THEN draft.val.comments ELSE <<>> >>

\* The edit fields after a step that leaves the selection at (q, idx): the
\* effect runs only when the selection changed.
FieldsAfter(qt, q, idx, drafts, readOk, grade, comments) ==
    IF q = selectedQuestion /\ idx = currentTrialIndex
    THEN <<grade, comments>>
    ELSE EffectFields(TrialAt(qt, q, idx), drafts, readOk, grade, comments)

----------------------------------------------------------------------------
(* Observations *)

\* What the last handler did: its name, whether it returned at its guard, whether
\* its draft-storage and review-storage calls returned (for the mount effect,
\* reviewOk is the read of the 'reviewedTrials' item; for a navigation, draftOk
\* is the loadDraft of the selection effect, when the effect ran), and (for a submit or an
\* undo) whether the store held the identity before (had), with the same human
\* grade (same), and (for a submit) whether the draft cache held the trial's key
\* before (hadDraft).
Op(kind) ==
    [kind |-> kind, rejected |-> FALSE, draftOk |-> TRUE, reviewOk |-> TRUE,
     had |-> FALSE, same |-> FALSE, hadDraft |-> FALSE]

SameIdentity(a, b) ==
    a.nct_id = b.nct_id /\ NormalizeText(a.question_text) = NormalizeText(b.question_text)

CountOf(rs, t) == Cardinality({i \in 1..Len(rs) : SameIdentity(rs[i], t)})

HasDraft(drafts, t) ==
    drafts.some /\ GetDraftKey(t.nct_id, t.question_text) \in DOMAIN drafts.val

HadSame(rs, t, grade) ==
    \E i \in 1..Len(rs) : SameIdentity(rs[i], t) /\ rs[i].human_grade = grade

\* The log follows one identity through submit, undo, submit: after a submit it
\* holds the identity, the length of the store before that submit (pre) and
\* whether the store held the identity then (had); an undo of the same identity
\* right after moves it to "undone", and then a submit of it to "resubmitted" or
\* a second undo of it to "undoneAgain".  Any other store operation starts over.
NoLog == [stage |-> "idle", nct_id |-> <<>>, question_text |-> <<>>, pre |-> 0,
          had |-> FALSE]

Follows(l, t) ==
    l.nct_id = t.nct_id /\ l.question_text = NormalizeText(t.question_text)

LogSubmit(l, t) ==
    IF l.stage = "undone" /\ Follows(l, t)
    THEN [l EXCEPT !.stage = "resubmitted"]
    ELSE [stage |-> "submitted", nct_id |-> t.nct_id,
          question_text |-> NormalizeText(t.question_text),
          pre |-> Len(reviewedTrials), had |-> CountOf(reviewedTrials, t) > 0]

LogUndo(l, t) ==
    IF l.stage = "submitted" /\ Follows(l, t) THEN [l EXCEPT !.stage = "undone"]
    ELSE IF l.stage = "undone" /\ Follows(l, t) THEN [l EXCEPT !.stage = "undoneAgain"]
    ELSE NoLog

----------------------------------------------------------------------------
(* The component *)

\* The state after construction, in a browser whose storage holds nothing yet.
Constructed ==
    /\ mounted = FALSE
    /\ fetching = FALSE
    /\ loading = TRUE
    /\ error = "null"
    /\ trials = <<>>
    /\ questions = <<>>
    /\ questionedTrials = <<>>
    /\ selectedQuestion = <<>>
    /\ currentTrialIndex = 0
    /\ humanGrade = <<>>
    /\ reviewComments = <<>>
    /\ reviewedTrials = <<>>
    /\ storedReviews = None
    /\ storedDrafts = None
    /\ clock = 0
    /\ ops = 0
    /\ lastOp = Op("init")
    /\ log = NoLog

Tabs == {1, 2}

\* A tab of the two-tab session before its component mounted, and the
\* session before any of its tabs wrote.
ClosedTab == [mounted |-> FALSE, reviewedTrials |-> <<>>, unwritten |-> FALSE]

NoTabs == tabs = [t \in Tabs |-> ClosedTab] /\ lastWriter = 0

Init ==
    /\ Constructed
    /\ csvText = <<>>
    /\ written = <<>>
    /\ parsed = None
    /\ NoTabs

\* useEffect(() => { loadCSVData(); restore persisted reviews }, [])
Mount ==
    /\ ~mounted
    /\ mounted' = TRUE
    /\ fetching' = TRUE
    /\ loading' = TRUE
    /\ \E readOk \in BOOLEAN :
          /\ reviewedTrials' = RestoreReviews(reviewedTrials, storedReviews, readOk)
          /\ lastOp' = [Op("mount") EXCEPT !.reviewOk = readOk]
    /\ UNCHANGED <<error, trials, questions, questionedTrials, selectedQuestion,
                   currentTrialIndex, humanGrade, reviewComments, storedReviews,
                   storedDrafts, clock, ops, log, parserVars, tabVars>>

\* loadCSVData, fetch and parse succeeding with the records d
LoadCSVDataWith(d) ==
    /\ fetching
    /\ \E readOk \in BOOLEAN :
          LET grouped == GroupTrialsByQuestion(d)
              unique == GetUniqueQuestions(d)
              sel == IF Len(unique) > 0 THEN unique[1] ELSE selectedQuestion
              fields == FieldsAfter(grouped, sel, currentTrialIndex, storedDrafts,
                                    readOk, humanGrade, reviewComments)
          IN /\ trials' = d
             /\ questionedTrials' = grouped
             /\ questions' = unique
             /\ selectedQuestion' = sel
             /\ humanGrade' = fields[1]
             /\ reviewComments' = fields[2]
    /\ loading' = FALSE
    /\ fetching' = FALSE
    /\ lastOp' = Op("load")
    /\ UNCHANGED <<mounted, error, currentTrialIndex, reviewedTrials, storedReviews,
                   storedDrafts, clock, ops, log, parserVars, tabVars>>

\* loadCSVData on one of the files of the review sessions
LoadCSVDataOk == \E d \in Datasets : LoadCSVDataWith(d)

\* Variant: the throw comes after setTrials, and the records stay set.
LoadCSVDataFailAfterSetTrials ==
    /\ fetching
    /\ error' = "Failed to load CSV data"
    /\ trials' = DataA
    /\ loading' = FALSE
    /\ fetching' = FALSE
    /\ lastOp' = Op("loadFailed")
    /\ UNCHANGED <<mounted, questions, questionedTrials, selectedQuestion,
                   currentTrialIndex, humanGrade, reviewComments, reviewedTrials,
                   storedReviews, storedDrafts, clock, ops, log, parserVars, tabVars>>

\* loadCSVData, fetch or parse throwing
LoadCSVDataFail ==
    /\ fetching
    /\ error' = "Failed to load CSV data"
    /\ loading' = FALSE
    /\ fetching' = FALSE
    /\ lastOp' = Op("loadFailed")
    /\ UNCHANGED <<mounted, trials, questions, questionedTrials, selectedQuestion,
                   currentTrialIndex, humanGrade, reviewComments, reviewedTrials,
                   storedReviews, storedDrafts, clock, ops, log, parserVars, tabVars>>

\* A step that moves the selection to (q, idx) and changes nothing else but the
\* edit fields the selection effect sets.
Navigate(kind, q, idx) ==
    /\ selectedQuestion' = q
    /\ currentTrialIndex' = idx
    /\ \E readOk \in BOOLEAN :
          LET fields == FieldsAfter(questionedTrials, q, idx, storedDrafts, readOk,
                                    humanGrade, reviewComments)
          IN /\ humanGrade' = fields[1] /\ reviewComments' = fields[2]
             /\ lastOp' = [Op(kind) EXCEPT !.draftOk =
                              readOk \/ (q = selectedQuestion /\ idx = currentTrialIndex)]
    /\ UNCHANGED <<mounted, fetching, loading, error, trials, questions,
                   questionedTrials, reviewedTrials, storedReviews, storedDrafts,
                   clock, ops, log, parserVars, tabVars>>

\* window keydown ArrowRight: setCurrentTrialIndex(i => Math.min(i + 1, length - 1))
KeyArrowRight ==
    /\ mounted
    /\ Navigate("navigate", selectedQuestion,
                Min(currentTrialIndex + 1, Len(CurrentTrials) - 1))

\* window keydown ArrowLeft: setCurrentTrialIndex(i => Math.max(i - 1, 0))
KeyArrowLeft ==
    /\ mounted
    /\ Navigate("navigate", selectedQuestion, Max(currentTrialIndex - 1, 0))

\* The Previous button (disabled at index 0)
PreviousClick ==
    /\ Rendered
    /\ currentTrialIndex # 0
    /\ Navigate("navigate", selectedQuestion, Max(0, currentTrialIndex - 1))

\* A case row of the Cases menu: setSelectedQuestion(q); setCurrentTrialIndex(0)
SelectCase ==
    /\ Rendered
    /\ \E i \in 1..Len(questions) : Navigate("navigate", questions[i], 0)

\* A trial row of the Cases menu: setSelectedQuestion(q); setCurrentTrialIndex(idx)
SelectTrial ==
    /\ Rendered
    /\ \E i \in 1..Len(questions) :
          \E idx \in 0..(Len(TrialsOf(questionedTrials, questions[i])) - 1) :
             Navigate("navigate", questions[i], idx)

\* An edit of one field of the review panel: saveDraft with the one-field
\* partial (the caller states the setter).
EditField(field, value) ==
    /\ Rendered
    /\ ops < MaxOps
    /\ ops' = ops + 1
    /\ \E ok \in BOOLEAN :
          /\ storedDrafts' = SaveDraft(storedDrafts, CurrentTrial.val.nct_id,
                                       CurrentTrial.val.question_text,
                                       [f \in {field} |-> value], ok)
          /\ lastOp' = [Op(field) EXCEPT !.draftOk = ok]
    /\ UNCHANGED <<mounted, fetching, loading, error, trials, questions,
                   questionedTrials, selectedQuestion, currentTrialIndex,
                   storedReviews, clock, log, parserVars, tabVars>>

\* Variant: choosing a grade also files the review.
OnValueChangeSubmitting ==
    \E v \in Grades :
       /\ EditField("human_grade", v)
       /\ humanGrade' = v
       /\ UNCHANGED reviewComments
       /\ reviewedTrials' =
             Upsert(reviewedTrials, ReviewedTrial(CurrentTrial.val, v, reviewComments, clock))

\* Select.onValueChange
OnValueChange ==
    \E v \in Grades :
       /\ EditField("human_grade", v)
       /\ humanGrade' = v
       /\ UNCHANGED <<reviewComments, reviewedTrials>>

\* Textarea.onChange
OnCommentsChange ==
    \E text \in CommentTexts :
       /\ EditField("comments", text)
       /\ reviewComments' = text
       /\ UNCHANGED <<humanGrade, reviewedTrials>>

\* Variant: the guard tests only the trial.
SubmitRejectedWithoutGrade == ~CurrentTrial.some

\* handleReview's guard: !currentTrial || !humanGrade
SubmitRejected == ~CurrentTrial.some \/ humanGrade = <<>>

\* handleReview
HandleReview ==
    /\ mounted
    /\ ops < MaxOps
    /\ IF SubmitRejected
       THEN /\ lastOp' = [Op("handleReview") EXCEPT !.rejected = TRUE]
            /\ UNCHANGED <<selectedQuestion, currentTrialIndex, humanGrade,
                           reviewComments, reviewedTrials, storedReviews,
                           storedDrafts, clock, ops, log>>
       ELSE \E writeOk \in BOOLEAN, draftOk \in BOOLEAN, effectOk \in BOOLEAN :
            LET ct == CurrentTrial.val
                rt == ReviewedTrial(ct, humanGrade, reviewComments, clock + 1)
                next == Upsert(reviewedTrials, rt)
                drafts == DeleteDraft(storedDrafts, ct.nct_id, ct.question_text, draftOk)
                idx == IF currentTrialIndex < Len(CurrentTrials) - 1
                       THEN currentTrialIndex + 1 ELSE currentTrialIndex
                fields == FieldsAfter(questionedTrials, selectedQuestion, idx, drafts,
                                      effectOk, <<>>, <<>>)
            IN /\ clock' = clock + 1
               /\ ops' = ops + 1
               /\ reviewedTrials' = UpdaterReturn(reviewedTrials, next, writeOk)
               /\ storedReviews' = WriteReviews(storedReviews, next, writeOk)
               /\ storedDrafts' = drafts
               /\ currentTrialIndex' = idx
               /\ humanGrade' = fields[1]
               /\ reviewComments' = fields[2]
               /\ lastOp' = [Op("handleReview") EXCEPT
                                !.draftOk = draftOk,
                                !.reviewOk = writeOk,
                                !.had = CountOf(reviewedTrials, ct) > 0,
                                !.same = HadSame(reviewedTrials, ct, humanGrade),
                                !.hadDraft = HasDraft(storedDrafts, ct)]
               /\ log' = LogSubmit(log, ct)
               /\ UNCHANGED selectedQuestion
    /\ UNCHANGED <<mounted, fetching, loading, error, trials, questions,
                   questionedTrials, parserVars, tabVars>>

\* undoReview
UndoReview ==
    /\ mounted
    /\ ops < MaxOps
    /\ IF ~CurrentTrial.some
       THEN /\ lastOp' = [Op("undoReview") EXCEPT !.rejected = TRUE]
            /\ UNCHANGED <<reviewedTrials, storedReviews, storedDrafts, ops, log>>
       ELSE \E writeOk \in BOOLEAN :
            LET next == UndoFilter(reviewedTrials, CurrentTrial.val)
            IN /\ reviewedTrials' = UpdaterReturn(reviewedTrials, next, writeOk)
               /\ storedReviews' = WriteReviews(storedReviews, next, writeOk)
               /\ lastOp' = [Op("undoReview") EXCEPT
                                !.reviewOk = writeOk,
                                !.had = CountOf(reviewedTrials, CurrentTrial.val) > 0]
               /\ storedDrafts' = UndoDrafts(storedDrafts, CurrentTrial.val)
               /\ log' = LogUndo(log, CurrentTrial.val)
               /\ ops' = ops + 1
    /\ UNCHANGED <<mounted, fetching, loading, error, trials, questions,
                   questionedTrials, selectedQuestion, currentTrialIndex, humanGrade,
                   reviewComments, clock, parserVars, tabVars>>

\* A page reload: the component is constructed anew (every useState back at its
\* initial value) and its mount effect runs; the storage is kept.
Reload ==
    /\ mounted
    /\ ops < MaxOps
    /\ ops' = ops + 1
    /\ mounted' = TRUE
    /\ fetching' = TRUE
    /\ loading' = TRUE
    /\ error' = "null"
    /\ trials' = <<>>
    /\ questions' = <<>>
    /\ questionedTrials' = <<>>
    /\ selectedQuestion' = <<>>
    /\ currentTrialIndex' = 0
    /\ humanGrade' = <<>>
    /\ reviewComments' = <<>>
    /\ \E readOk \in BOOLEAN :
          /\ reviewedTrials' = RestoreReviews(<<>>, storedReviews, readOk)
          /\ lastOp' = [Op("mount") EXCEPT !.reviewOk = readOk]
    /\ log' = NoLog
    /\ UNCHANGED <<storedReviews, storedDrafts, clock, parserVars, tabVars>>

Next ==
    \/ Mount
    \/ LoadCSVDataOk
    \/ LoadCSVDataFail
    \/ KeyArrowRight
    \/ KeyArrowLeft
    \/ PreviousClick
    \/ SelectCase
    \/ SelectTrial
    \/ OnValueChange
    \/ OnCommentsChange
    \/ HandleReview
    \/ UndoReview
    \/ Reload

Spec == Init /\ [][Next]_vars

\* The session under its scheduling: React runs the mount effect of a mounted
\* component, and the promises loadCSVData awaits (fetch, text, parseCSV) settle,
\* so that the try ends or the catch runs, and then the finally.
LoadSettles == LoadCSVDataOk \/ LoadCSVDataFail

LiveSpec == Spec /\ WF_vars(Mount) /\ WF_vars(LoadSettles)

----------------------------------------------------------------------------
(* parseCSV on its own: the texts it is handed and the call *)

\* s.replace(/"/g, '""')
RECURSIVE DoubleQuotes(_)
DoubleQuotes(s) ==
    IF s = <<>> THEN <<>>
    ELSE IF Head(s) = "\"" THEN <<"\"", "\"">> \o DoubleQuotes(Tail(s))
    ELSE <<Head(s)>> \o DoubleQuotes(Tail(s))

\* csvEscape: a value with a quote, a comma or a line feed is wrapped in quotes,
\* its quotes doubled.
CsvEscape(val) ==
    IF \E i \in 1..Len(val) : val[i] \in {"\"", ",", "\n"}
    THEN <<"\"">> \o DoubleQuotes(val) \o <<"\"">>
    ELSE val

\* Array.prototype.join (the two halves joined, then put together)
RECURSIVE Join(_, _)
Join(pieces, sep) ==
    IF pieces = <<>> THEN <<>>
    ELSE IF Len(pieces) = 1 THEN pieces[1]
    ELSE LET h == Len(pieces) \div 2
         IN Join(SubSeq(pieces, 1, h), sep) \o <<sep>>
               \o Join(SubSeq(pieces, h + 1, Len(pieces)), sep)

\* The CSV text of rows of cells, the first being the header: the cells of a
\* row escaped and joined by commas, the rows joined by line feeds.
ToCSV(rows) ==
    Join([i \in 1..Len(rows) |->
            Join([j \in 1..Len(rows[i]) |-> CsvEscape(rows[i][j])], ",")], "\n")

HeaderOf(names) == [i \in 1..Len(names) |-> <<names[i]>>]

ReplaceAt(row, p, v) == [i \in 1..Len(row) |-> IF i = p THEN v ELSE row[i]]

\* The header row naming every field of TrialData.
CanonicalHeader == HeaderOf(FieldNames)

\* The same names, two of them in another case and one padded with blanks.
MixedCaseHeader ==
    ReplaceAt(ReplaceAt(CanonicalHeader, 5, <<"Trial_Title">>),
              2, <<" ", "NCT_ID", " ">>)

\* Thirteen columns none of whose names is known.
LegacyHeader == [i \in 1..13 |-> <<"col", ToString(i)>>]

\* The canonical header with the column of model_reasoning named Reasoning.
AliasHeader == ReplaceAt(CanonicalHeader, 16, <<"Reasoning">>)

\* The alias header with a second alias column at its end.
TwoAliasHeader == Append(AliasHeader, <<"llm_reasoning">>)

\* The canonical header followed by the alias columns reasoning and
\* judge_accuracy.
BothHeader == CanonicalHeader \o <<(<<"reasoning">>), (<<"judge_accuracy">>)>>

HeaderRows ==
    {CanonicalHeader, MixedCaseHeader, LegacyHeader, AliasHeader, TwoAliasHeader,
     BothHeader}

\* A data row of n cells, the cell of column i holding the text i.
BaseRow(n) == [i \in 1..n |-> <<ToString(i)>>]

\* The cells replaced in the base row of n cells, as <<column, value>>: a text
\* with a comma (first, second and last column), a text with a blank in front
\* (first column), a text with a blank behind (last column), and nothing (the
\* first column and the column of model_reasoning).
CellEdits(n) ==
    { <<1, <<"a", ",", " ", "b">> >>, <<2, <<"a", ",", "b">> >>,
      <<n, <<"a", ",", "b">> >>, <<1, <<" ", "x">> >>, <<n, <<"x", " ">> >>,
      <<16, <<>> >>, <<1, <<>> >> }

\* The data rows under a header of n columns: the base row, the base row with
\* one cell replaced, and the base row cut to its first five cells.
DataRowsFor(n) ==
    {BaseRow(n), SubSeq(BaseRow(n), 1, 5)}
        \cup {ReplaceAt(BaseRow(n), e[1], e[2]) : e \in CellEdits(n)}

RECURSIVE RowSeqs(_, _)
RowSeqs(rows, k) ==
    IF k = 0 THEN {<<>>}
    ELSE RowSeqs(rows, k - 1)
            \cup {Append(s, r) : s \in {t \in RowSeqs(rows, k - 1) : Len(t) = k - 1},
                                 r \in rows}

\* The files: a header row and up to MaxRows data rows; and the files without
\* any line that is not blank.
Sheets ==
    UNION {{<<h>> \o s : s \in RowSeqs(DataRowsFor(Len(h)), MaxRows)} : h \in HeaderRows}
        \cup {<<>>, << <<>>, <<>> >>, << <<(<<" ">>)>>, <<>> >>}

ParseInit ==
    /\ Constructed
    /\ written \in Sheets
    /\ csvText = ToCSV(written)
    /\ parsed = None
    /\ NoTabs

\* parseCSV(csvText), as loadCSVData calls it on the fetched text
ParseCSVCall ==
    /\ ~parsed.some
    /\ parsed' = Some(ParseCSV(csvText))
    /\ UNCHANGED <<csvText, written, componentVars, tabVars>>

ParseNext == ParseCSVCall

ParseSpec == ParseInit /\ [][ParseNext]_vars

----------------------------------------------------------------------------
(* The grouping on its own: loadCSVData handed any short sequence of records *)

\* Bound of the record sequences handed to the grouping: how many records.
MaxRecords == 3

\* Two case texts that differ in the length of a whitespace run, and a third.
CaseTexts == {<<"P", " ", " ", "x">>, <<"P", " ", "x">>, <<"Q">>}

\* The rows of two trials for each of the case texts.
GroupRecords ==
    {Trial(q, nct, <<"A">>, <<"B">>) : q \in CaseTexts, nct \in {<<"N", "1">>, <<"N", "2">>}}

\* loadCSVData, parseCSV returning any sequence of these rows (a row may recur)
LoadCSVDataOf == \E d \in RowSeqs(GroupRecords, MaxRecords) : LoadCSVDataWith(d)

GroupNext == Mount \/ LoadCSVDataOf

GroupSpec == Init /\ [][GroupNext]_vars

----------------------------------------------------------------------------
(* Two tabs on one storage.  Each tab runs its own TrialReviewInterface, with *)
(* its own reviewedTrials, on the file DataA; the 'reviewedTrials' and the   *)
(* 'reviewDrafts' items are shared.  Of a tab only the review list is kept:  *)
(* the trial and the grade of a submit are whatever the tab has selected.    *)

\* The mount effect of tab t: the restore of the persisted reviews.
TabMount(t) ==
    /\ ~tabs[t].mounted
    /\ \E readOk \in BOOLEAN :
          tabs' = [tabs EXCEPT ![t] =
                     [mounted |-> TRUE,
                      reviewedTrials |-> RestoreReviews(<<>>, storedReviews, readOk),
                      unwritten |-> FALSE]]
    /\ UNCHANGED <<componentVars, parserVars, lastWriter>>

\* The updater of setReviewedTrials in tab t, with the new list next: the
\* write of the shared item, and the list of the tab.
TabUpdate(t, next, writeOk) ==
    /\ tabs' = [tabs EXCEPT ![t].reviewedTrials =
                                UpdaterReturn(tabs[t].reviewedTrials, next, writeOk),
                             ![t].unwritten = ~writeOk]
    /\ storedReviews' = WriteReviews(storedReviews, next, writeOk)
    /\ lastWriter' = IF writeOk THEN t ELSE lastWriter

\* handleReview in tab t, for the trial and the grade selected there
TabHandleReview(t) ==
    /\ tabs[t].mounted
    /\ ops < MaxOps
    /\ \E i \in 1..Len(DataA), grade \in Grades, writeOk \in BOOLEAN, draftOk \in BOOLEAN :
          LET rt == ReviewedTrial(DataA[i], grade, <<>>, clock + 1)
          IN /\ TabUpdate(t, Upsert(tabs[t].reviewedTrials, rt), writeOk)
             /\ storedDrafts' = DeleteDraft(storedDrafts, DataA[i].nct_id,
                                            DataA[i].question_text, draftOk)
    /\ clock' = clock + 1
    /\ ops' = ops + 1
    /\ UNCHANGED <<mounted, fetching, loading, error, trials, questions,
                   questionedTrials, selectedQuestion, currentTrialIndex, humanGrade,
                   reviewComments, reviewedTrials, lastOp, log, parserVars>>

\* undoReview in tab t, for the trial selected there
TabUndoReview(t) ==
    /\ tabs[t].mounted
    /\ ops < MaxOps
    /\ \E i \in 1..Len(DataA), writeOk \in BOOLEAN :
          TabUpdate(t, UndoFilter(tabs[t].reviewedTrials, DataA[i]), writeOk)
    /\ ops' = ops + 1
    /\ UNCHANGED <<mounted, fetching, loading, error, trials, questions,
                   questionedTrials, selectedQuestion, currentTrialIndex, humanGrade,
                   reviewComments, reviewedTrials, storedDrafts, clock, lastOp, log,
                   parserVars>>

TabNext ==
    \/ \E t \in Tabs : TabMount(t)
    \/ \E t \in Tabs : TabHandleReview(t)
    \/ \E t \in Tabs : TabUndoReview(t)

TabSpec == Init /\ [][TabNext]_vars

----------------------------------------------------------------------------
(* The draft cache on a file whose trial ids and case texts hold colons *)

\* Two rows of different trials and different cases: trial N with the case
\* text "::x", and trial N:: with the case text "x".
DataColons ==
    << Trial(<<":", ":", "x">>, <<"N">>, <<"A">>, <<"B">>),
       Trial(<<"x">>, <<"N", ":", ":">>, <<"A">>, <<"A">>) >>

\* loadCSVData on that file
LoadCSVDataColons == LoadCSVDataWith(DataColons)

DraftNext ==
    \/ Mount
    \/ LoadCSVDataColons
    \/ SelectCase
    \/ OnValueChange
    \/ OnCommentsChange
    \/ HandleReview

DraftSpec == Init /\ [][DraftNext]_vars

----------------------------------------------------------------------------
(* Properties *)

\* The trial a handler acts on, seen from the state before the step.
Acting == CurrentTrial.val

\* A step in which handleReview passed its guard, for a trial and a grade.
SubmitStep ==
    /\ lastOp'.kind = "handleReview"
    /\ CurrentTrial.some
    /\ humanGrade # <<>>

\* C1: the review store never holds two ReviewedRecords of one identity
\* (nct_id, whitespace-normalized question_text), whether its content came from
\* the startup restore or from submits and undos.
C1_AtMostOnePerIdentity ==
    \A i, j \in 1..Len(reviewedTrials) :
        SameIdentity(reviewedTrials[i], reviewedTrials[j]) => i = j

\* A submit on top of a record restored from storage: the store holds both.
C1_Witness ==
    /\ lastOp.kind = "handleReview" /\ ~lastOp.rejected
    /\ Len(reviewedTrials) = 2
    /\ reviewedTrials[1].reviewed_at[1] = "ISO"

\* C2: a submit for an identity whose entry already carries the same human grade
\* (the grade was submitted before) leaves exactly one record of the identity,
\* with that grade and the time of this submit, which is later than the time the
\* replaced entry carried.
C2_ResubmitOverwrites ==
    [][ (SubmitStep /\ HadSame(reviewedTrials, Acting, humanGrade)) =>
          /\ CountOf(reviewedTrials', Acting) = 1
          /\ \A i \in 1..Len(reviewedTrials') :
                SameIdentity(reviewedTrials'[i], Acting) =>
                   /\ reviewedTrials'[i].human_grade = humanGrade
                   /\ reviewedTrials'[i].reviewed_at = <<"Date", clock'>>
          /\ \A j \in 1..Len(reviewedTrials) :
                SameIdentity(reviewedTrials[j], Acting) =>
                   reviewedTrials[j].reviewed_at[2] < clock' ]_vars

C2_Witness ==
    lastOp.kind = "handleReview" /\ ~lastOp.rejected /\ lastOp.same

LogTrial == [nct_id |-> log.nct_id, question_text |-> log.question_text]

\* C3 as stated: after a submit and an undo of the same record the store has
\* the length it had before the submit, whatever the store held; after the
\* re-submit it holds exactly one entry of the identity.
C3_UndoRestoresCount ==
    /\ log.stage = "undone" => Len(reviewedTrials) = log.pre
    /\ log.stage = "resubmitted" => CountOf(reviewedTrials, LogTrial) = 1

\* C3, amended: the length returns to its value before the submit when the
\* store held no entry of the identity then; when it held one, the submit
\* replaced it and the undo leaves the store one entry shorter.  After the
\* re-submit the store holds exactly one entry of the identity.
C3_UndoRestoresCountWhenNew ==
    /\ (log.stage = "undone" /\ ~log.had) => Len(reviewedTrials) = log.pre
    /\ (log.stage = "undone" /\ log.had) => Len(reviewedTrials) = log.pre - 1
    /\ log.stage = "undone" => CountOf(reviewedTrials, LogTrial) = 0
    /\ log.stage = "resubmitted" => CountOf(reviewedTrials, LogTrial) = 1

C3_Witness ==
    log.stage = "resubmitted" /\ ~log.had

\* C4: an undo leaves no entry of the current trial's identity and keeps every
\* other entry; when the store holds no such entry (as after a first undo), or
\* there is no current trial, the store is left as it is.
C4_UndoRemoves ==
    [][ lastOp'.kind = "undoReview" =>
          IF CurrentTrial.some
          THEN /\ CountOf(reviewedTrials', Acting) = 0
               /\ reviewedTrials' =
                     SelectSeq(reviewedTrials, LAMBDA r : ~SameIdentity(r, Acting))
               /\ CountOf(reviewedTrials, Acting) = 0 => reviewedTrials' = reviewedTrials
          ELSE reviewedTrials' = reviewedTrials ]_vars

\* A second undo of an identity, right after the undo that removed its record.
C4_Witness ==
    /\ log.stage = "undoneAgain"
    /\ lastOp.kind = "undoReview" /\ ~lastOp.had

\* C5: every record of the store is approved or needs_review, and approved
\* exactly when its human grade equals its model grade.
C5_StatusAgreesWithGrades ==
    \A i \in 1..Len(reviewedTrials) :
        /\ reviewedTrials[i].review_status \in {"approved", "needs_review"}
        /\ reviewedTrials[i].review_status = "approved"
              <=> reviewedTrials[i].human_grade = reviewedTrials[i].model_grade

C5_Witness ==
    \E i, j \in 1..Len(reviewedTrials) :
        /\ reviewedTrials[i].review_status = "approved"
        /\ reviewedTrials[j].review_status = "needs_review"

\* C6: handleReview called with an empty human grade, or with no current trial,
\* changes neither the store, the persisted reviews, the draft cache, the edit
\* fields nor the trial index.
C6_RejectedSubmitChangesNothing ==
    [][ (lastOp'.kind = "handleReview" /\ (humanGrade = <<>> \/ ~CurrentTrial.some)) =>
          UNCHANGED <<reviewedTrials, storedReviews, storedDrafts, humanGrade,
                      reviewComments, currentTrialIndex, selectedQuestion>> ]_vars

\* A rejected submit on a trial, with reviews and drafts in place.
C6_Witness ==
    /\ lastOp.kind = "handleReview" /\ lastOp.rejected
    /\ CurrentTrial.some /\ humanGrade = <<>>
    /\ Len(reviewedTrials) > 0
    /\ storedDrafts.some /\ DOMAIN storedDrafts.val # {}

\* The record a submit of the edited grade and comments must leave in the store.
Filed ==
    \E i \in 1..Len(reviewedTrials') :
        /\ SameIdentity(reviewedTrials'[i], Acting)
        /\ reviewedTrials'[i].human_grade = humanGrade
        /\ reviewedTrials'[i].comments = reviewComments

\* C7 as stated: after a submit the store holds a record of the trial with the
\* grade and comments being edited, and the draft cache holds no entry under
\* the trial's key.
C7_SubmitFilesAndClearsDraft ==
    [][ SubmitStep => (Filed /\ ~HasDraft(storedDrafts', Acting)) ]_vars

\* C7, amended: the record is always filed; the draft entry is gone when the
\* localStorage calls of deleteDraft returned.  When one of them throws, the
\* error is swallowed and the draft cache is left as it was.
C7_SubmitFilesAndClearsDraftIfStorageWorks ==
    [][ SubmitStep =>
          /\ Filed
          /\ lastOp'.draftOk => ~HasDraft(storedDrafts', Acting)
          /\ ~lastOp'.draftOk => storedDrafts' = storedDrafts ]_vars

\* A submit that found a draft under the trial's key and deleted it.
C7_Witness ==
    /\ lastOp.kind = "handleReview" /\ ~lastOp.rejected
    /\ lastOp.hadDraft /\ lastOp.draftOk

\* C8: an undo leaves the draft cache exactly as it was.
C8_UndoKeepsDrafts ==
    [][ lastOp'.kind = "undoReview" => storedDrafts' = storedDrafts ]_vars

\* An undo that removed the record of a trial whose draft is in the cache.
C8_Witness ==
    /\ lastOp.kind = "undoReview" /\ lastOp.had
    /\ HasDraft(storedDrafts, CurrentTrial.val)

\* C9: the store changes only in a submit, an undo or the restore of the mount
\* effect; a draft edit and a navigation leave it as it is, and a submit, which
\* deletes the draft, leaves the store with the record it filed.
C9_StoreChangesOnlyBySubmitUndo ==
    [][ /\ reviewedTrials' # reviewedTrials =>
             lastOp'.kind \in {"handleReview", "undoReview", "mount"}
        /\ lastOp'.kind \in {"human_grade", "comments", "navigate", "load", "loadFailed"} =>
             reviewedTrials' = reviewedTrials
        /\ SubmitStep => CountOf(reviewedTrials', Acting) = 1 ]_vars

\* A draft saved for a trial that has no record, beside the record of another.
C9_Witness ==
    /\ lastOp.kind \in {"human_grade", "comments"} /\ lastOp.draftOk
    /\ HasDraft(storedDrafts, CurrentTrial.val)
    /\ Len(reviewedTrials) > 0
    /\ CountOf(reviewedTrials, CurrentTrial.val) = 0

\* The draft map of a state, {} when the item is missing.
DraftMap(drafts) == IF drafts.some THEN drafts.val ELSE <<>>

\* The draft map after saveDraft merged the one-field partial {field: value}
\* into the entry of the acting trial: that field has the value, the other
\* field is as before, the other keys are as before.
Merged(field, value) ==
    LET old == DraftMap(storedDrafts)
        new == DraftMap(storedDrafts')
        key == GetDraftKey(Acting.nct_id, Acting.question_text)
        other == IF field = "human_grade" THEN "comments" ELSE "human_grade"
        before == IF key \in DOMAIN old THEN old[key] ELSE <<>>
    IN /\ storedDrafts'.some
       /\ DOMAIN new = DOMAIN old \cup {key}
       /\ field \in DOMAIN new[key] /\ new[key][field] = value
       /\ other \in DOMAIN new[key] <=> other \in DOMAIN before
       /\ other \in DOMAIN before => new[key][other] = before[other]
       /\ \A k \in DOMAIN old \ {key} : new[k] = old[k]

EditStep(field) == lastOp'.kind = field /\ CurrentTrial.some

\* C10 as stated: every draft set merges the partial into the entry of the key.
C10_DraftSetMerges ==
    [][ /\ EditStep("human_grade") => Merged("human_grade", humanGrade')
        /\ EditStep("comments") => Merged("comments", reviewComments') ]_vars

\* C10, amended: the partial is merged when the localStorage calls of saveDraft
\* returned; when one of them throws, the error is swallowed and the draft map
\* is left as it was.
C10_DraftSetMergesIfStorageWorks ==
    [][ /\ (EditStep("human_grade") /\ lastOp'.draftOk) =>
              Merged("human_grade", humanGrade')
        /\ (EditStep("comments") /\ lastOp'.draftOk) =>
              Merged("comments", reviewComments')
        /\ ((EditStep("human_grade") \/ EditStep("comments")) /\ ~lastOp'.draftOk) =>
              storedDrafts' = storedDrafts ]_vars

\* A comment saved into the entry that already held a grade, beside the entry
\* of another trial.
C10_Witness ==
    /\ lastOp.kind = "comments" /\ lastOp.draftOk
    /\ HasDraft(storedDrafts, CurrentTrial.val)
    /\ DOMAIN storedDrafts.val[GetDraftKey(CurrentTrial.val.nct_id,
                                           CurrentTrial.val.question_text)]
          = {"human_grade", "comments"}
    /\ Cardinality(DOMAIN storedDrafts.val) = 2

\* A step in which handleReview or undoReview passed its guard and ran its
\* updater, storage write included.
StoreStep ==
    /\ lastOp'.kind \in {"handleReview", "undoReview"}
    /\ ~lastOp'.rejected

\* The persisted copy of a list: what JSON.stringify writes and JSON.parse
\* reads back (a Date becomes its ISO string).
Persisted(rs) == Some(ToJSONList(rs))

\* C11 as stated: after a submit or an undo whose write returned, the persisted
\* array is the (JSON-encoded) in-memory list, and the mount effect leaves the
\* in-memory list equal to the persisted array whenever there is one.
C11_PersistedAndRestored ==
    [][ /\ (StoreStep /\ lastOp'.reviewOk) => storedReviews' = Persisted(reviewedTrials')
        /\ (lastOp'.kind = "mount" /\ storedReviews.some) =>
              reviewedTrials' = storedReviews.val ]_vars

\* C11, amended: the write part as stated; the mount effect leaves the list
\* equal to the persisted array when the item exists and its read returned,
\* and leaves the list empty when the item is missing or its read throws.
C11_PersistedAndRestoredIfReadable ==
    [][ /\ (StoreStep /\ lastOp'.reviewOk) => storedReviews' = Persisted(reviewedTrials')
        /\ (lastOp'.kind = "mount" /\ storedReviews.some /\ lastOp'.reviewOk) =>
              reviewedTrials' = storedReviews.val
        /\ (lastOp'.kind = "mount" /\ ~(storedReviews.some /\ lastOp'.reviewOk)) =>
              reviewedTrials' = <<>> ]_vars

\* A startup that restored the record an earlier submit had persisted.
C11_Witness ==
    /\ lastOp.kind = "mount" /\ lastOp.reviewOk
    /\ Len(reviewedTrials) > 0
    /\ storedReviews = Some(reviewedTrials)

\* C12: a submit or an undo whose storage write throws raises no error (the
\* error state is untouched), leaves the
\* persisted copy as it was, and still gives the in-memory list its new value:
\* the filed record for a submit, no entry of the identity for an undo.
C12_WriteFailureSwallowed ==
    [][ (StoreStep /\ ~lastOp'.reviewOk) =>
          /\ error' = error
          /\ storedReviews' = storedReviews
          /\ lastOp'.kind = "handleReview" =>
                /\ Filed
                /\ CountOf(reviewedTrials', Acting) = 1
          /\ lastOp'.kind = "undoReview" => CountOf(reviewedTrials', Acting) = 0 ]_vars

\* An undo whose write threw: the list lost the record, the persisted copy
\* still holds it.
C12_Witness ==
    /\ lastOp.kind = "undoReview" /\ lastOp.had /\ ~lastOp.reviewOk
    /\ CountOf(reviewedTrials, CurrentTrial.val) = 0
    /\ storedReviews.some /\ CountOf(storedReviews.val, CurrentTrial.val) = 1

\* The entries of the store whose human grade is the model's grade.
Agreeing == {i \in 1..Len(reviewedTrials) :
                reviewedTrials[i].human_grade = reviewedTrials[i].model_grade}

\* C13: on a non-empty store the agreement rate of exportToJSON is the number
\* of records whose human grade equals the model grade divided by the number
\* of records (rate * total = agreeing), beside a total equal to that number;
\* with two records of which exactly one agrees it is 1/2.
C13_AgreementRate ==
    LET doc == ExportToJSON(reviewedTrials)
        rate == doc.agreement_rate
        total == Len(reviewedTrials)
    IN /\ doc.total_reviews = total
       /\ total > 0 =>
             /\ rate.kind = "finite" /\ rate.den > 0
             /\ rate.num * total = Cardinality(Agreeing) * rate.den
       /\ (total = 2 /\ Cardinality(Agreeing) = 1) =>
             rate = [kind |-> "finite", num |-> 1, den |-> 2]

\* Two submitted reviews, one agreeing with the model and one agreeing with
\* the judge against the model.
C13_Witness ==
    /\ lastOp.kind = "handleReview" /\ ~lastOp.rejected
    /\ Len(reviewedTrials) = 2 /\ Cardinality(Agreeing) = 1
    /\ \E i \in 1..2 :
          /\ reviewedTrials[i].human_grade = reviewedTrials[i].judge_correct_grade
          /\ reviewedTrials[i].human_grade # reviewedTrials[i].model_grade
    /\ ExportToJSON(reviewedTrials).agreement_rate.num = 1
    /\ ExportToJSON(reviewedTrials).agreement_rate.den = 2

\* C14: on an empty store the agreement rate of exportToJSON is NaN, the
\* result of the unguarded 0 / 0, and not a number such as 0.
C14_EmptyStoreRateIsNaN ==
    reviewedTrials = <<>> =>
        /\ ExportToJSON(reviewedTrials).total_reviews = 0
        /\ ExportToJSON(reviewedTrials).agreement_rate.kind = "NaN"
        /\ ExportToJSON(reviewedTrials).agreement_rate.kind # "finite"

\* A store emptied again by an undo.
C14_Witness ==
    /\ lastOp.kind = "undoReview" /\ lastOp.had
    /\ reviewedTrials = <<>>
    /\ ExportToJSON(reviewedTrials).agreement_rate.kind = "NaN"

----------------------------------------------------------------------------
(* Properties of parseCSV, stated on the rows of cells the text was written  *)
(* from.                                                                     *)

\* The data rows of the file and the records parseCSV returned.
DataRows == SubSeq(written, 2, Len(written))
Records == parsed.val.trials

\* parseCSV was called on a file with one of the header rows.
ParsedFile == parsed.some /\ Len(written) >= 1 /\ written[1] \in HeaderRows

\* The text a record holds for a field, nothing for an undefined field.
FieldText(trial, f) ==
    IF f = "model_reasoning"
    THEN IF trial[f].some THEN trial[f].val ELSE <<>>
    ELSE trial[f]

\* The ways a name is written in the header rows: as it is, in another case,
\* padded with blanks.
Spellings(name) ==
    {<<name>>}
        \cup (IF name = "nct_id" THEN {<<" ", "NCT_ID", " ">>} ELSE {})
        \cup (IF name = "trial_title" THEN {<<"Trial_Title">>} ELSE {})
        \cup (IF name = "reasoning" THEN {<<"Reasoning">>} ELSE {})

\* The column (from 1) a name is read from under a header row: the first one
\* named so; without one, the fixed position of a legacy field; 0 when there
\* is neither.
ColumnOf(h, name) ==
    LET named == {j \in 1..Len(h) : h[j] \in Spellings(name)}
        legacy == {i \in 1..Len(LegacyNames) : LegacyNames[i] = name}
    IN IF named # {} THEN CHOOSE j \in named : \A k \in named : j <= k
       ELSE IF legacy # {} THEN CHOOSE i \in legacy : TRUE
       ELSE 0

\* The value of column j on the line of a row: the cell as written, without
\* the blanks at the two ends of the line; nothing when the row has no such
\* column.
LineCell(row, j) ==
    IF j < 1 \/ j > Len(row) THEN <<>>
    ELSE LET a == IF j = 1 THEN DropLeadingSpaces(row[j]) ELSE row[j]
         IN IF j = Len(row) THEN DropTrailingSpaces(a) ELSE a

\* A text with none of the characters csvEscape quotes.
Plain(text) == \A i \in 1..Len(text) : text[i] \notin {",", "\"", "\n"}

\* C15: parseCSV on a text without any line that is not blank returns no
\* records and does not throw.
C15_EmptyInputYieldsNoRecords ==
    (parsed.some /\ \A i \in 1..Len(Split(csvText, "\n")) :
                        Trim(Split(csvText, "\n")[i]) = <<>>)
        => (~parsed.val.threw /\ parsed.val.trials = <<>>)

\* The fields the columns of a header row are read into, for the header rows
\* whose every column is read by exactly one field.
ColumnFields(h) ==
    IF h = LegacyHeader THEN LegacyNames
    ELSE IF h \in {CanonicalHeader, MixedCaseHeader, AliasHeader} THEN FieldNames
    ELSE <<>>

\* C16: a cell with a comma, written between quotes, is read as one field, the
\* text between the quotes with its commas and without the quotes, and every
\* field read from a later column holds the cell of that column.
C16_QuotedCommaIsOneField ==
    ParsedFile =>
        \A i \in 1..Len(DataRows) : \A k \in 1..Len(DataRows[i]) :
            LET row == DataRows[i]
                names == ColumnFields(written[1])
            IN (/\ \E c \in 1..Len(row[k]) : row[k][c] = ","
                /\ \A c \in 1..Len(row[k]) : row[k][c] \notin {"\"", "\n"}
                /\ k <= Len(names))
               => /\ Len(Records) = Len(DataRows)
                  /\ \A j \in k..Len(names) :
                        j <= Len(row) => FieldText(Records[i], names[j]) = row[j]

\* The spec's example: "a, b",2,3,... under a header of unknown names.
C16_Witness ==
    /\ parsed.some /\ Len(written) = 2 /\ written[1] = LegacyHeader
    /\ written[2][1] = <<"a", ",", " ", "b">>
    /\ Records[1].question_text = <<"a", ",", " ", "b">>
    /\ Records[1].nct_id = <<"2">>
    /\ Records[1].human_grade = <<"12">>

\* C17: a record whose values have no comma, quote or line feed, written as
\* the one data row under the canonical header, is parsed into a record whose
\* every field equals the value written.
C17_RoundTrip ==
    (/\ parsed.some /\ Len(written) = 2 /\ written[1] = CanonicalHeader
     /\ Len(written[2]) = Len(FieldNames)
     /\ \A j \in 1..Len(written[2]) : Plain(written[2][j]))
        => /\ ~parsed.val.threw
           /\ Len(Records) = 1
           /\ \A j \in 1..Len(FieldNames) :
                 FieldText(Records[1], FieldNames[j]) = written[2][j]

FieldSet == {FieldNames[i] : i \in 1..Len(FieldNames)}

\* The names a field is looked up under, in the order they are tried: its own
\* and, for three fields, the aliases.
NamesOf(f) ==
    IF f = "model_reasoning"
    THEN << "model_reasoning", "reasoning", "model_explanation", "llm_reasoning",
            "llm_explanation" >>
    ELSE IF f = "judge_assessment" THEN << "judge_assessment", "judge_accuracy" >>
    ELSE IF f = "judge_explanation" THEN << "judge_explanation", "judge_comment" >>
    ELSE << f >>

\* The first text of a sequence that is not empty, nothing when all are.
FirstNonEmpty(texts) ==
    LET hits == SelectSeq([i \in 1..Len(texts) |-> i], LAMBDA i : texts[i] # <<>>)
    IN IF hits = <<>> THEN <<>> ELSE texts[hits[1]]

\* The value a field takes from a row: that of the first of its names whose
\* column holds a value.
ValueOf(h, row, f) ==
    FirstNonEmpty([a \in 1..Len(NamesOf(f)) |-> LineCell(row, ColumnOf(h, NamesOf(f)[a]))])

\* C18 as stated: every field of every record holds the cell of the column
\* named as the field (whatever the case and the blanks around the name); a
\* field without such a column holds the cell at its fixed position if it is
\* one of the twelve legacy fields and the empty text otherwise.
C18_FieldExtraction ==
    ParsedFile =>
        /\ ~parsed.val.threw /\ Len(Records) = Len(DataRows)
        /\ \A i \in 1..Len(DataRows) : \A f \in FieldSet :
              FieldText(Records[i], f) = LineCell(DataRows[i], ColumnOf(written[1], f))

\* C18, amended: as stated for every field but model_reasoning,
\* judge_assessment and judge_explanation; these three hold the value of the
\* first of the columns named as the field or as one of its aliases that has
\* a value in the row, and model_reasoning is undefined, not the empty text,
\* when none has.
C18_FieldExtractionWithAliases ==
    ParsedFile =>
        /\ ~parsed.val.threw /\ Len(Records) = Len(DataRows)
        /\ \A i \in 1..Len(DataRows) : \A f \in FieldSet :
              /\ Len(NamesOf(f)) = 1 =>
                    Records[i][f] = LineCell(DataRows[i], ColumnOf(written[1], f))
              /\ FieldText(Records[i], f) = ValueOf(written[1], DataRows[i], f)
              /\ f = "model_reasoning" =>
                    (Records[i][f].some <=> ValueOf(written[1], DataRows[i], f) # <<>>)

\* A file none of whose headers is known: the legacy fields by position, the
\* other fields empty; and a file whose headers are named in another case.
C18_Witness ==
    /\ parsed.some /\ Len(written) = 2
    /\ \/ /\ written[1] = LegacyHeader
          /\ Records[1].gender = <<"10">> /\ Records[1].human_grade = <<"12">>
          /\ Records[1].retrieval_score = <<>>
       \/ /\ written[1] = MixedCaseHeader
          /\ Records[1].trial_title = <<"5">> /\ Records[1].nct_id = <<"2">>

\* C19: under a header with a reasoning column and no model_reasoning column,
\* the model_reasoning of every record is the text of that column in its row
\* (undefined where the column is empty); with a second alias column, it is
\* the text of the first alias column that has a value in the row.
C19_AliasPopulatesReasoning ==
    (ParsedFile /\ written[1] \in {AliasHeader, TwoAliasHeader}) =>
        /\ Len(Records) = Len(DataRows)
        /\ \A i \in 1..Len(DataRows) :
              LET reasoning == LineCell(DataRows[i], 16)
                  second == IF written[1] = TwoAliasHeader
                            THEN LineCell(DataRows[i], Len(TwoAliasHeader)) ELSE <<>>
              IN /\ reasoning # <<>> => Records[i].model_reasoning = Some(reasoning)
                 /\ (reasoning = <<>> /\ second # <<>>) =>
                       Records[i].model_reasoning = Some(second)
                 /\ (reasoning = <<>> /\ second = <<>>) =>
                       Records[i].model_reasoning = None

\* Two rows under the header with the Reasoning column, both populated.
C19_Witness ==
    /\ parsed.some /\ Len(written) = 3 /\ written[1] = AliasHeader
    /\ Records[1].model_reasoning = Some(<<"16">>)
    /\ Records[2].model_reasoning = Some(<<"16">>)

\* The record parseCSV returns for a row put alone under the header.
Alone(h, row) == ParseCSV(ToCSV(<<h, row>>)).trials[1]

\* A row with fewer cells than the header has columns.
Short(h, row) == Len(row) < Len(h)

\* The field is read from no column the row has: neither the column found for
\* its name nor one found for an alias is among the row's cells.
ColumnsMissing(h, row, f) ==
    \A a \in 1..Len(NamesOf(f)) :
        ColumnOf(h, NamesOf(f)[a]) = 0 \/ ColumnOf(h, NamesOf(f)[a]) > Len(row)

\* The field of the record is the empty string.
IsEmptyString(trial, f) ==
    IF f = "model_reasoning" THEN trial[f] = Some(<<>>) ELSE trial[f] = <<>>

\* C20 as stated: parseCSV does not throw on a row with fewer cells than the
\* header has columns; the row gives one record, whose every field read from a
\* column the row does not have is the empty string, and every row after it
\* gives the record it gives alone under the header.
C20_ShortRowDegrades ==
    ParsedFile =>
        /\ ~parsed.val.threw /\ Len(Records) = Len(DataRows)
        /\ \A i \in 1..Len(DataRows) :
              /\ (\E j \in 1..(i - 1) : Short(written[1], DataRows[j])) =>
                    Records[i] = Alone(written[1], DataRows[i])
              /\ Short(written[1], DataRows[i]) =>
                    \A f \in FieldSet :
                       ColumnOf(written[1], f) > Len(DataRows[i]) =>
                          IsEmptyString(Records[i], f)

\* C20, amended: as stated, but model_reasoning is undefined, not the empty
\* string, when neither its column nor the column of one of its aliases is
\* among the cells of the row; every other field read from no column of the
\* row is the empty string, and the fields whose column the row has hold
\* their cells.
C20_ShortRowDegradesToEmptyOrUndefined ==
    ParsedFile =>
        /\ ~parsed.val.threw /\ Len(Records) = Len(DataRows)
        /\ \A i \in 1..Len(DataRows) :
              /\ (\E j \in 1..(i - 1) : Short(written[1], DataRows[j])) =>
                    Records[i] = Alone(written[1], DataRows[i])
              /\ Short(written[1], DataRows[i]) =>
                    \A f \in FieldSet :
                       LET col == ColumnOf(written[1], f)
                       IN /\ ColumnsMissing(written[1], DataRows[i], f) =>
                                IF f = "model_reasoning"
                                THEN Records[i][f] = None
                                ELSE Records[i][f] = <<>>
                          /\ (col >= 1 /\ col < Len(DataRows[i])) =>
                                FieldText(Records[i], f) = DataRows[i][col]

\* A row of five cells followed by a full row.
C20_Witness ==
    /\ parsed.some /\ Len(written) = 3 /\ written[1] = CanonicalHeader
    /\ Len(written[2]) = 5 /\ Len(written[3]) = Len(CanonicalHeader)
    /\ Records[1].nct_id = <<"2">> /\ Records[1].human_grade = <<>>
    /\ Records[1].model_reasoning = None
    /\ Records[2].human_grade = <<"31">>

\* C21: every record parseCSV returns has a question_text that is not empty,
\* whenever the header row parsed.
C21_QuestionTextNonEmpty ==
    ParsedFile => \A i \in 1..Len(Records) : Records[i].question_text # <<>>

\* loadCSVData has set the records, the grouping index and the case list.
Loaded == mounted /\ ~fetching /\ error = "null"

KeysOf(ts) == {ts[i].question_text : i \in 1..Len(ts)}

FirstOccurrence(ts, key) ==
    SelectSeq([i \in 1..Len(ts) |-> i],
              LAMBDA i : NormalizeText(ts[i].question_text) = key)[1]

\* C23: the case list holds the distinct normalized case keys of the records,
\* each once, in the order of their first occurrence, and its elements are the
\* keys of the grouping index.
C23_UniqueQuestions ==
    Loaded =>
        /\ {questions[i] : i \in 1..Len(questions)}
              = {NormalizeText(k) : k \in KeysOf(trials)}
        /\ \A i, j \in 1..Len(questions) : questions[i] = questions[j] => i = j
        /\ \A i, j \in 1..Len(questions) :
              i < j => FirstOccurrence(trials, questions[i])
                          < FirstOccurrence(trials, questions[j])
        /\ {questions[i] : i \in 1..Len(questions)} = DOMAIN questionedTrials

\* C24: two records whose case texts have the same normalization are in one
\* group of the grouping index, in their original order, and the case list has
\* one entry for them.
C24_GroupingStability ==
    Loaded =>
        \A a, b \in 1..Len(trials) :
            (a < b /\ NormalizeText(trials[a].question_text)
                        = NormalizeText(trials[b].question_text)) =>
               /\ \E k \in DOMAIN questionedTrials :
                     \E i, j \in 1..Len(questionedTrials[k]) :
                        /\ i < j
                        /\ questionedTrials[k][i] = trials[a]
                        /\ questionedTrials[k][j] = trials[b]
               /\ Cardinality({i \in 1..Len(questions) :
                      NormalizeText(questions[i])
                         = NormalizeText(trials[a].question_text)}) = 1

DescriptiveFields == {"question_text", "nct_id", "model_grade", "judge_correct_grade"}

ExportRows == ExportToCSVFull(reviewedTrials, trials)

\* C25: for every ReviewedRecord such that a parsed record has its identity
\* (nct_id, normalized question_text), the descriptive fields of its row in the
\* full export are those of a parsed record of that identity, and the human
\* grade and the comments those of the ReviewedRecord.
C25_ExportFromParsedRecord ==
    \A i \in 1..Len(reviewedTrials) :
        (\E j \in 1..Len(trials) : SameIdentity(trials[j], reviewedTrials[i])) =>
           /\ \E j \in 1..Len(trials) :
                 /\ SameIdentity(trials[j], reviewedTrials[i])
                 /\ \A k \in DescriptiveFields : ExportRows[i][k] = trials[j][k]
           /\ ExportRows[i].human_grade = reviewedTrials[i].human_grade
           /\ ExportRows[i].comments = reviewedTrials[i].comments

\* C26: the session starts loading; the load resolves (loading ends) every
\* time it was started; when the fetch or the parse threw, the session is in
\* the error state without records, groups or case list; and the error state
\* lasts as long as the session, that is until the page is loaded anew.
C26_LoadLifecycle ==
    /\ (loading = TRUE /\ error = "null")
    /\ (loading = TRUE) ~> (loading = FALSE)
    /\ [](lastOp.kind = "loadFailed" => (error # "null" /\ ~loading))
    /\ [](error # "null" =>
            (trials = <<>> /\ questions = <<>> /\ questionedTrials = <<>>))
    /\ [][(error # "null" /\ lastOp'.kind # "mount") => error' = error]_vars

\* A handler ran in the error state, which is still there.
C26_Witness ==
    /\ error # "null" /\ ~loading /\ trials = <<>>
    /\ lastOp.kind = "handleReview"

\* C27 as stated: whatever the two tabs did, the persisted reviews are the
\* (JSON-encoded) review list of the tab that wrote last.
C27_LastWriteWins ==
    lastWriter # 0 => storedReviews = Persisted(tabs[lastWriter].reviewedTrials)

\* C27, amended: the persisted reviews are the review list of the tab that
\* wrote last unless that tab has since made a submit or an undo whose write
\* threw; a record the other tab persisted and the last writer's list does not
\* hold is then not persisted any more.
C27_LastWriteWinsUnlessUnwritten ==
    (lastWriter # 0 /\ ~tabs[lastWriter].unwritten) =>
        storedReviews = Persisted(tabs[lastWriter].reviewedTrials)

\* Tab 1 persisted a record; tab 2, which never had it, wrote last: the
\* persisted reviews are tab 2's and the record of tab 1 is not among them.
C27_Witness ==
    /\ lastWriter = 2 /\ ~tabs[2].unwritten /\ ~tabs[1].unwritten
    /\ Len(tabs[1].reviewedTrials) = 1 /\ Len(tabs[2].reviewedTrials) = 1
    /\ ~SameIdentity(tabs[1].reviewedTrials[1], tabs[2].reviewedTrials[1])
    /\ storedReviews = Persisted(tabs[2].reviewedTrials)
    /\ \A i \in 1..Len(storedReviews.val) :
          ~SameIdentity(storedReviews.val[i], tabs[1].reviewedTrials[1])

\* A step of the selection effect: the selection moved to a trial.
EffectStep ==
    /\ lastOp'.kind = "navigate"
    /\ <<selectedQuestion', currentTrialIndex'>> # <<selectedQuestion, currentTrialIndex>>
    /\ TrialAt(questionedTrials, selectedQuestion', currentTrialIndex').some

\* C28: the faults of the draft storage are swallowed.  A loadDraft whose read
\* throws reports no draft: the selection effect fills the edit fields as for
\* a trial without a draft (the judge's grade, no comments).  A saveDraft (a
\* field edit) or a deleteDraft (a submit) whose read or write throws leaves
\* the persisted draft map as it was; and none of them raises an error: the
\* error state is untouched and the handler completes.
C28_DraftFaultsSwallowed ==
    [][ /\ (EffectStep /\ ~lastOp'.draftOk) =>
              /\ humanGrade' = TrialAt(questionedTrials, selectedQuestion',
                                       currentTrialIndex').val.judge_correct_grade
              /\ reviewComments' = <<>>
              /\ storedDrafts' = storedDrafts /\ error' = error
        /\ (lastOp'.kind \in {"human_grade", "comments"} /\ ~lastOp'.draftOk) =>
              /\ storedDrafts' = storedDrafts /\ error' = error
              /\ lastOp'.kind = "human_grade" => humanGrade' \in Grades
              /\ lastOp'.kind = "comments" => reviewComments' \in CommentTexts
        /\ (SubmitStep /\ ~lastOp'.draftOk) =>
              /\ storedDrafts' = storedDrafts /\ error' = error
              /\ CountOf(reviewedTrials', Acting) = 1 ]_vars

\* The selection came to a trial whose draft holds another grade than the
\* judge's, the read threw, and the grade field shows the judge's.
C28_Witness ==
    /\ lastOp.kind = "navigate" /\ ~lastOp.draftOk
    /\ CurrentTrial.some /\ HasDraft(storedDrafts, CurrentTrial.val)
    /\ LET draft == storedDrafts.val[GetDraftKey(CurrentTrial.val.nct_id,
                                                 CurrentTrial.val.question_text)]
       IN /\ "human_grade" \in DOMAIN draft
          /\ draft.human_grade # CurrentTrial.val.judge_correct_grade
    /\ humanGrade = CurrentTrial.val.judge_correct_grade

\* The entries of a list that are of another identity than the trial's, in
\* the order of the list.
Others(rs, t) == SelectSeq(rs, LAMBDA x : ~SameIdentity(x, t))

\* C29: a submit or an undo touches the entries of the target identity only.
\* After a submit the list is the entries of the other identities, unchanged
\* and in their order, followed by one entry: the new one, of the target
\* identity.  After an undo it is the entries of the other identities,
\* unchanged and in their order.
C29_OnlyTargetIdentityTouched ==
    [][ /\ SubmitStep =>
              /\ Len(reviewedTrials') = Len(Others(reviewedTrials, Acting)) + 1
              /\ SubSeq(reviewedTrials', 1, Len(reviewedTrials') - 1)
                    = Others(reviewedTrials, Acting)
              /\ SameIdentity(reviewedTrials'[Len(reviewedTrials')], Acting)
              /\ reviewedTrials'[Len(reviewedTrials')].human_grade = humanGrade
              /\ reviewedTrials'[Len(reviewedTrials')].reviewed_at = <<"Date", clock'>>
        /\ (lastOp'.kind = "undoReview" /\ ~lastOp'.rejected) =>
              reviewedTrials' = Others(reviewedTrials, Acting) ]_vars

\* A resubmit of the identity that was first in a list of two: the entry of
\* the other identity, filed in between, is now first and the new entry last.
C29_Witness ==
    /\ lastOp.kind = "handleReview" /\ ~lastOp.rejected /\ lastOp.had
    /\ Len(reviewedTrials) = 2
    /\ ~SameIdentity(reviewedTrials[1], reviewedTrials[2])
    /\ reviewedTrials[1].reviewed_at = <<"Date", 2>>
    /\ reviewedTrials[2].reviewed_at = <<"Date", 3>>

\* The records of the file share a draft entry (have the same draft key)
\* exactly when they have the same identity.
KeysAreIdentities ==
    \A i, j \in 1..Len(trials) :
        GetDraftKey(trials[i].nct_id, trials[i].question_text)
            = GetDraftKey(trials[j].nct_id, trials[j].question_text)
        <=> SameIdentity(trials[i], trials[j])

\* What loadDraft returns for a record.
DraftOf(drafts, t) == LoadDraft(drafts, t.nct_id, t.question_text, TRUE)

\* A step taken on the current trial (an edit of its fields, its submit)
\* leaves the draft of every record of another identity as it was.
ForeignDraftsKept ==
    CurrentTrial.some =>
        \A j \in 1..Len(trials) :
            ~SameIdentity(trials[j], Acting) =>
                DraftOf(storedDrafts', trials[j]) = DraftOf(storedDrafts, trials[j])

\* C30: two records share a draft entry if and only if they have the same
\* nct_id and the same normalized case text, so that no record reads,
\* overwrites or deletes the draft of a record of another identity.
C30_DraftKeyIsIdentity == []KeysAreIdentities /\ [][ForeignDraftsKept]_vars

====
